---- MODULE Spec2Model ----
(***************************************************************************)
(* Staged-upload file lifecycle manager.                                   *)
(*                                                                         *)
(*  - MulterManager (Temp Reaper): startClearInterval / stopClearInterval  *)
(*    / _clearTemp, and the older manager whose constructor starts the     *)
(*    timer itself (clearTemp).                                            *)
(*  - Post (Owning-Entity Binding): addFile / removeFileById /             *)
(*    deleteAllFiles on top of FileModel.                                  *)
(*                                                                         *)
(* Every await of the JavaScript code is a point where the model lets any  *)
(* other enabled step run; the code between two awaits is one step.        *)
(***************************************************************************)
EXTENDS Integers, Sequences, FiniteSets, TLC

\* ------------------------------------------------------------ bounds
MaxEntries == 2
MaxSweeps == 2
MaxStarts == 2
MaxTime == 2
MaxIds == 3
MaxCalls == 3
MaxUploads == 3

\* ------------------------------------------------ configuration (opts)
\* opts.clearTmpTime and opts.clearTmpIntervalTime, in model time units.
clearTmpTime == 1
clearTmpIntervalTime == 1

Names == 1..MaxEntries
SweepIds == 1..MaxSweeps
TimerIds == 1..MaxStarts

VARIABLES
    version,            \* "lifecycle": start/stop methods; "ctor": constructor starts the timer
    now,                \* Date.now()
    tmpDir,             \* Staging Area: entry name -> its fs.Stats
    dstDir,             \* Permanent Store: names of the committed entries
    created,            \* number of entry names handed out so far (names are never reused)
    timers,             \* live setInterval timers
    due,                \* timer -> time left until its next callback is due
    started,            \* number of setInterval calls made so far
    clearTmpInterval,   \* this.#clearTmpInterval: the stored handle (0: undefined)
    lastCall,           \* the lifecycle call that returned last
    sweeps,             \* the _clearTemp calls in flight, by slot
    ended               \* the call that has just ended, as it ended (NoSweep: none)

\* The Post document and the File collection.
VARIABLES
    hasFiles,           \* this.files is an array (FALSE: it is undefined)
    files,              \* this.files: the sequence of File ids of the post
    records,            \* the ids of the FileRecords that exist
    issued,             \* number of File ids handed out so far
    calls,              \* the calls made on the post, and the calls they made
    throwLog            \* history: the calls that threw, in the order they threw

\* One request going through the upload middleware.
VARIABLES
    request,            \* what is asked: opts.fields given, multipart body, the files' field names
    reqFiles,           \* req.files
    mw                  \* where the middleware is, and what it did with next

\* The construction of a manager from its options.
VARIABLES
    opts,               \* the options given to the constructor (0: omitted)
    config,             \* the fields the constructor set from them
    verdict             \* what a sweep of this manager decides for one entry

reaperVars == <<version, now, tmpDir, dstDir, created, timers, due, started,
                clearTmpInterval, lastCall, sweeps, ended>>

postVars == <<hasFiles, files, records, issued, calls, throwLog>>

mwVars == <<request, reqFiles, mw>>

cfgVars == <<opts, config, verdict>>

vars == <<version, now, tmpDir, dstDir, created, timers, due, started,
          clearTmpInterval, lastCall, sweeps, ended,
          hasFiles, files, records, issued, calls, throwLog,
          request, reqFiles, mw,
          opts, config, verdict>>

\* ------------------------------------------------------------ the sweep

\* A slot holding no call.
NoSweep ==
    [pc |-> "idle", force |-> FALSE, origin |-> "none", files |-> {}, date |-> 0,
     cb |-> [e \in Names |-> "none"], caught |-> FALSE, promise |-> "none"]

\* Mutant: the comparison made strict.
ExpiredStrict(date, stats) ==
    date - stats.birthtimeMs > clearTmpTime

\* const expired = date - stats.birthtimeMs >= this.#clearTmpTime
Expired(date, stats) ==
    date - stats.birthtimeMs >= clearTmpTime

\* Mutant: the age is not looked at.
QualifiesAnyAge(force, date, stats) ==
    stats.isDirectory

\* if(stats.isDirectory()){ ... if(force || expired){ rm } }
Qualifies(force, date, stats) ==
    stats.isDirectory /\ (force \/ Expired(date, stats))

\* Every callback of the call sw has run to its end.
CallbacksDone(sw) ==
    \A e \in Names : sw.cb[e] \notin {"stat", "rm"}

\* The slot can take a new call: the model keeps at most MaxSweeps calls in flight.
Free(s) ==
    sweeps[s].pc = "idle"

\* Mutant: no catch, the error leaves the async function.
OnErrorRethrow(sw) ==
    [sw EXCEPT !.pc = "done", !.caught = TRUE, !.promise = "rejected"]

\* catch(err){ log(err); }: the async function returns normally.
OnError(sw) ==
    [sw EXCEPT !.pc = "done", !.caught = TRUE, !.promise = "fulfilled"]

\* The try block ran to its end.
OnSuccess(sw) ==
    [sw EXCEPT !.pc = "done", !.promise = "fulfilled"]

\* Mutant: the first rejection ends the sweep, the callbacks still pending
\* never touch their entries (a sequential loop that stops at the first error).
SettleAllAbort(sw) ==
    IF sw.pc # "map" THEN sw
    ELSE IF \E e \in sw.files : sw.cb[e] = "rejected"
         THEN OnError([sw EXCEPT !.cb = [e \in Names |->
                  IF sw.cb[e] \in {"stat", "rm"} THEN "skipped" ELSE sw.cb[e]]])
    ELSE IF \A e \in sw.files : sw.cb[e] \in {"removed", "skipped"} THEN OnSuccess(sw)
    ELSE sw

\* await Promise.all(...): rejects with the first rejection, fulfils when every
\* callback has fulfilled, and has no effect once settled; the callbacks that
\* are still pending go on.  The continuation of the async function runs in
\* the same turn of the event loop.
SettleAll(sw) ==
    IF sw.pc # "map" THEN sw
    ELSE IF \E e \in sw.files : sw.cb[e] = "rejected" THEN OnError(sw)
    ELSE IF \A e \in sw.files : sw.cb[e] \in {"removed", "skipped"} THEN OnSuccess(sw)
    ELSE sw

\* The call in slot s becomes sw.  A call whose promise has settled and whose
\* callbacks have all ended leaves its slot; what it was is in `ended`.
Continue(s, sw) ==
    LET after == SettleAll(sw)
    IN IF after.pc = "done" /\ CallbacksDone(after)
       THEN /\ sweeps' = [sweeps EXCEPT ![s] = NoSweep]
            /\ ended' = after
       ELSE /\ sweeps' = [sweeps EXCEPT ![s] = after]
            /\ UNCHANGED ended

\* _clearTemp({ force }) up to its first await (fs.promises.readdir).
clearTemp(force, origin) ==
    \E s \in SweepIds :
        /\ Free(s)
        /\ \A r \in SweepIds : Free(r) => s <= r
        /\ sweeps' = [sweeps EXCEPT ![s] =
               [NoSweep EXCEPT !.pc = "readdir", !.force = force,
                               !.origin = origin, !.promise = "pending"]]
        /\ UNCHANGED ended

\* readdir settles: the listing and Date.now() are taken, one callback per file
\* starts and stops at its await of fs.promises.stat.
Readdir(s, ioError) ==
    /\ sweeps[s].pc = "readdir"
    /\ IF ioError
       THEN Continue(s, OnError(sweeps[s]))
       ELSE Continue(s, [sweeps[s] EXCEPT
                !.pc = "map",
                !.files = DOMAIN tmpDir,
                !.date = now,
                !.cb = [e \in Names |-> IF e \in DOMAIN tmpDir THEN "stat" ELSE "none"]])
    /\ UNCHANGED <<version, now, tmpDir, dstDir, created, timers, due, started,
                   clearTmpInterval, lastCall>>

\* stat settles for one file: it rejects when the entry is gone (ENOENT) or on
\* an I/O error; otherwise the callback goes on to rm or ends.
Stat(s, e, ioError) ==
    /\ sweeps[s].cb[e] = "stat"
    /\ LET sw == sweeps[s]
           next == IF ioError \/ e \notin DOMAIN tmpDir THEN "rejected"
                   ELSE IF Qualifies(sw.force, sw.date, tmpDir[e]) THEN "rm"
                   ELSE "skipped"
       IN Continue(s, [sw EXCEPT !.cb[e] = next])
    /\ UNCHANGED <<version, now, tmpDir, dstDir, created, timers, due, started,
                   clearTmpInterval, lastCall>>

\* Mutant: rm is given the name alone, and takes it out of whichever
\* directory holds it.
RmByName(s, e, ioError) ==
    /\ sweeps[s].cb[e] = "rm"
    /\ Continue(s, [sweeps[s] EXCEPT !.cb[e] = IF ioError THEN "rejected" ELSE "removed"])
    /\ tmpDir' = IF ioError THEN tmpDir
                 ELSE [x \in DOMAIN tmpDir \ {e} |-> tmpDir[x]]
    /\ dstDir' = IF ioError THEN dstDir ELSE dstDir \ {e}
    /\ UNCHANGED <<version, now, created, timers, due, started,
                   clearTmpInterval, lastCall>>

\* fs.promises.rm(filepath, { recursive: true, force: true }) settles: a path
\* that is already gone is no error.
Rm(s, e, ioError) ==
    /\ sweeps[s].cb[e] = "rm"
    /\ Continue(s, [sweeps[s] EXCEPT !.cb[e] = IF ioError THEN "rejected" ELSE "removed"])
    /\ tmpDir' = IF ioError THEN tmpDir
                 ELSE [x \in DOMAIN tmpDir \ {e} |-> tmpDir[x]]
    /\ UNCHANGED <<version, now, dstDir, created, timers, due, started,
                   clearTmpInterval, lastCall>>

\* ------------------------------------------------------------ lifecycle

\* startClearInterval(): one forced sweep, then setInterval; the handle of an
\* earlier setInterval is overwritten.
startClearInterval ==
    /\ version = "lifecycle"
    /\ started < MaxStarts
    /\ clearTemp(TRUE, "call")
    /\ started' = started + 1
    /\ timers' = timers \cup {started + 1}
    /\ due' = [due EXCEPT ![started + 1] = clearTmpIntervalTime]
    /\ clearTmpInterval' = started + 1
    /\ lastCall' = "start"
    /\ UNCHANGED <<version, now, tmpDir, dstDir, created>>

\* stopClearInterval(): one forced sweep, then clearInterval(handle).
stopClearInterval ==
    /\ version = "lifecycle"
    /\ clearTemp(TRUE, "call")
    /\ timers' = timers \ {clearTmpInterval}
    /\ due' = [t \in TimerIds |-> IF t = clearTmpInterval THEN 0 ELSE due[t]]
    /\ lastCall' = "stop"
    /\ UNCHANGED <<version, now, tmpDir, dstDir, created, started,
                   clearTmpInterval>>

\* The setInterval callback: that._clearTemp({ force: false }).
TimerFire(t) ==
    /\ t \in timers
    /\ due[t] = 0
    /\ clearTemp(FALSE, "timer")
    /\ due' = [due EXCEPT ![t] = clearTmpIntervalTime]
    /\ UNCHANGED <<version, now, tmpDir, dstDir, created, timers, started,
                   clearTmpInterval, lastCall>>

\* ------------------------------------------------------------ environment

\* The Storage Engine stages an upload: a new directory named after its
\* creation time.
Stage ==
    /\ created < MaxEntries
    /\ created' = created + 1
    /\ tmpDir' = [x \in DOMAIN tmpDir \cup {created + 1} |->
                    IF x = created + 1
                    THEN [isDirectory |-> TRUE, birthtimeMs |-> now]
                    ELSE tmpDir[x]]
    /\ UNCHANGED <<version, now, dstDir, timers, due, started,
                   clearTmpInterval, lastCall, sweeps, ended>>

\* Something else leaves a regular file directly in the staging directory.
PutFile ==
    /\ created < MaxEntries
    /\ created' = created + 1
    /\ tmpDir' = [x \in DOMAIN tmpDir \cup {created + 1} |->
                    IF x = created + 1
                    THEN [isDirectory |-> FALSE, birthtimeMs |-> now]
                    ELSE tmpDir[x]]
    /\ UNCHANGED <<version, now, dstDir, timers, due, started,
                   clearTmpInterval, lastCall, sweeps, ended>>

\* The Commit Protocol moves a staged upload into the Permanent Store.
Commit(e) ==
    /\ e \in DOMAIN tmpDir
    /\ tmpDir[e].isDirectory
    /\ tmpDir' = [x \in DOMAIN tmpDir \ {e} |-> tmpDir[x]]
    /\ dstDir' = dstDir \cup {e}
    /\ UNCHANGED <<version, now, created, timers, due, started,
                   clearTmpInterval, lastCall, sweeps, ended>>

\* Time passes.
Tick ==
    /\ now < MaxTime
    /\ now' = now + 1
    /\ due' = [t \in TimerIds |-> IF due[t] > 0 THEN due[t] - 1 ELSE 0]
    /\ UNCHANGED <<version, tmpDir, dstDir, created, timers, started,
                   clearTmpInterval, lastCall, sweeps, ended>>

\* The record of the call that has just ended is dropped.
Return ==
    /\ ended.pc # "idle"
    /\ ended' = NoSweep
    /\ UNCHANGED <<version, now, tmpDir, dstDir, created, timers, due, started,
                   clearTmpInterval, lastCall, sweeps>>

\* ------------------------------------------------------------ the manager's initial state

\* After construction.  "lifecycle": nothing runs until startClearInterval.
\* "ctor": the constructor has called clearTemp({ force: true }), which is at
\* its readdir, and setInterval.
Init ==
    /\ version \in {"lifecycle", "ctor"}
    /\ now = 0
    /\ tmpDir = <<>>
    /\ dstDir = {}
    /\ created = 0
    /\ clearTmpInterval = 0
    /\ lastCall = "none"
    /\ ended = NoSweep
    /\ IF version = "ctor"
       THEN /\ timers = {1}
            /\ started = 1
            /\ due = [t \in TimerIds |-> IF t = 1 THEN clearTmpIntervalTime ELSE 0]
            /\ sweeps = [s \in SweepIds |->
                  IF s = 1
                  THEN [NoSweep EXCEPT !.pc = "readdir", !.force = TRUE,
                                       !.origin = "call", !.promise = "pending"]
                  ELSE NoSweep]
       ELSE /\ timers = {}
            /\ started = 0
            /\ due = [t \in TimerIds |-> 0]
            /\ sweeps = [s \in SweepIds |-> NoSweep]

\* Some other code calls the method directly: clearTemp({ force }).
Call(force) ==
    /\ clearTemp(force, "call")
    /\ UNCHANGED <<version, now, tmpDir, dstDir, created, timers, due, started,
                   clearTmpInterval, lastCall>>

\* No callback of a live timer is due and no sweep is in flight.
Quiet ==
    /\ \A t \in timers : due[t] > 0
    /\ \A s \in SweepIds : sweeps[s].pc = "idle"

\* ------------------------------------------------------------ Post

Ids == 1..MaxIds

NoMessage == <<"", 0>>

\* A call on the post: addFile, removeFileById or deleteAllFiles.
\*   parent: the deleteAllFiles call that made it (0: called from outside)
\*   res:    what the awaited FileModel call gave ("throw": it rejected)
\*   status: what the call itself gave ("threw": its promise rejected)
\*   had, before: history, whether this.files was an array, and what it
\*           held, when the call was made
NewCall(kind, id, parent) ==
    [kind |-> kind, pc |-> "await", id |-> id, parent |-> parent,
     res |-> "none", status |-> "pending", message |-> NoMessage,
     had |-> hasFiles, before |-> files]

Range(seq) ==
    {seq[i] : i \in DOMAIN seq}

\* The calls made from outside (not by deleteAllFiles).
TopLevel ==
    {c \in DOMAIN calls : calls[c].parent = 0}

\* The removeFileById calls a deleteAllFiles call made.
Children(cs, d) ==
    {c \in DOMAIN cs : cs[c].parent = d}

\* Mutant: the index the id had when the post was loaded (ids are handed out
\* in the order of the sequence), not the index it has now.
IndexOfStale(seq, x) ==
    x - 1

\* Array.prototype.indexOf: the first index (from 0) of x, or -1.
IndexOf(seq, x) ==
    IF x \in Range(seq)
    THEN (CHOOSE i \in DOMAIN seq :
              seq[i] = x /\ \A j \in DOMAIN seq : seq[j] = x => i <= j) - 1
    ELSE -1

\* Mutant: shift() instead of splice(index, 1): the first element goes.
SpliceShift(seq, index) ==
    IF seq = <<>> THEN seq ELSE Tail(seq)

\* Array.prototype.splice(index, 1): a negative index counts from the end.
Splice(seq, index) ==
    LET start == IF index < 0
                 THEN (IF Len(seq) + index < 0 THEN 0 ELSE Len(seq) + index)
                 ELSE (IF index > Len(seq) THEN Len(seq) ELSE index)
    IN [i \in 1..(IF start < Len(seq) THEN Len(seq) - 1 ELSE Len(seq)) |->
           IF i <= start THEN seq[i] ELSE seq[i + 1]]

\* Mutant: the id is not looked for in this.files.
removeFileByIdCallUnchecked(id, parent) ==
    [NewCall("removeFileById", id, parent) EXCEPT !.pc = "lookup"]

\* removeFileById(id) up to its first await: the includes check, then the
\* call of FileModel.deleteAndRemoveById.
removeFileByIdCall(id, parent) ==
    IF ~hasFiles \/ id \notin Range(files)
    THEN [NewCall("removeFileById", id, parent) EXCEPT
             !.pc = "done", !.status = "fail",
             !.message = <<"Not found file of post with id", id>>]
    ELSE [NewCall("removeFileById", id, parent) EXCEPT !.pc = "lookup"]

\* catch (e){ return ({status: 'fail', message: e.message}) }
Catch(call, msg) ==
    [call EXCEPT !.pc = "done", !.status = "fail", !.message = msg]

\* Mutant: the error reported is that of the last call, in call order, that
\* threw.
PromiseAllLastError(cs, d) ==
    IF \E c \in Children(cs, d) : cs[c].status = "threw"
    THEN [cs EXCEPT ![d] = Catch(cs[d],
             cs[CHOOSE c \in Children(cs, d) :
                    /\ cs[c].status = "threw"
                    /\ \A k \in Children(cs, d) : cs[k].status = "threw" => k <= c].message)]
    ELSE IF cs[d].pc = "done" THEN cs
    ELSE IF \A c \in Children(cs, d) : cs[c].status \in {"success", "fail"}
    THEN [cs EXCEPT ![d].pc = "done", ![d].status = "success"]
    ELSE cs

\* try{ await Promise.all(...); return ({status: 'success'}) } catch ...
\* in the deleteAllFiles call d, after the calls cs changed: Promise.all
\* rejects with the first rejection (and is caught), fulfils when every call
\* has returned, whatever it returned, and has no effect once settled.
PromiseAll(cs, d) ==
    IF cs[d].pc = "done" THEN cs
    ELSE IF \E c \in Children(cs, d) : cs[c].status = "threw"
    THEN [cs EXCEPT ![d] = Catch(cs[d],
             cs[CHOOSE c \in Children(cs, d) : cs[c].status = "threw"].message)]
    ELSE IF \A c \in Children(cs, d) : cs[c].status \in {"success", "fail"}
    THEN [cs EXCEPT ![d].pc = "done", ![d].status = "success"]
    ELSE cs

\* The call c has returned or thrown: the deleteAllFiles call awaiting it,
\* if any, goes on.
Settled(cs, c) ==
    IF cs[c].parent = 0 THEN cs ELSE PromiseAll(cs, cs[c].parent)

\* What a call returns once the FileModel call it awaited has settled with
\* res: the result itself, or the error goes on to the caller.
Returned(res) ==
    IF res = "throw" THEN "threw" ELSE res

\* Mutant: unshift instead of push.
PushFront(fs, res, id) ==
    IF res = "success" THEN <<id>> \o fs ELSE fs

\* if(res.status === 'success') this.files.push(res.model.id)
Push(fs, res, id) ==
    IF res = "success" THEN Append(fs, id) ELSE fs

\* Mutant: the fail result is not looked at.
SpliceOutUnchecked(fs, res, id) ==
    IF res # "throw" THEN Splice(fs, IndexOf(fs, id)) ELSE fs

\* if(status === 'fail') return {status, message}
\* const index = this.files.indexOf(id); this.files.splice(index, 1)
SpliceOut(fs, res, id) ==
    IF res = "success" THEN Splice(fs, IndexOf(fs, id)) ELSE fs

\* this.files.map on undefined: the TypeError's message.
TypeErrorMessage == <<"Cannot read properties of undefined", 0>>

\* post.addFile(multifile, userId) up to its await of FileModel.createAndMove.
addFileCall ==
    /\ Cardinality(TopLevel) < MaxCalls
    /\ issued < MaxIds
    /\ calls' = Append(calls, [NewCall("addFile", 0, 0) EXCEPT !.pc = "createAndMove"])
    /\ UNCHANGED <<hasFiles, files, records, issued, throwLog>>

\* FileModel.createAndMove settles: a new FileRecord and {status: 'success',
\* model}, or {status: 'fail', message}, or an error.
createAndMove(c, outcome) ==
    /\ c \in DOMAIN calls
    /\ calls[c].pc = "createAndMove"
    /\ IF outcome = "success"
       THEN /\ issued < MaxIds
            /\ issued' = issued + 1
            /\ records' = records \cup {issued + 1}
            /\ calls' = [calls EXCEPT ![c].pc = "resume", ![c].res = outcome,
                                      ![c].id = issued + 1]
       ELSE /\ calls' = [calls EXCEPT ![c].pc = "resume", ![c].res = outcome,
                                      ![c].message = <<"createAndMove", c>>]
            /\ UNCHANGED <<issued, records>>
    /\ UNCHANGED <<hasFiles, files, throwLog>>

\* addFile after its await: an error goes on to the caller; otherwise
\* if(!this.files) this.files = [], push the id on success, return res.
addFileResume(c) ==
    /\ c \in DOMAIN calls
    /\ calls[c].kind = "addFile"
    /\ calls[c].pc = "resume"
    /\ hasFiles' = IF calls[c].res = "throw" THEN hasFiles ELSE TRUE
    /\ files' = Push(files, calls[c].res, calls[c].id)
    /\ calls' = [calls EXCEPT ![c].pc = "done", ![c].status = Returned(calls[c].res)]
    /\ throwLog' = IF calls[c].res = "throw" THEN Append(throwLog, c) ELSE throwLog
    /\ UNCHANGED <<records, issued>>

\* post.removeFileById(id), called from outside.
removeFileById(id) ==
    /\ Cardinality(TopLevel) < MaxCalls
    /\ calls' = Append(calls, removeFileByIdCall(id, 0))
    /\ UNCHANGED <<hasFiles, files, records, issued, throwLog>>

\* FileModel.deleteAndRemoveById looks the FileRecord up: without it, the call
\* gives {status: 'fail', message}.
deleteAndRemoveByIdLookup(c) ==
    /\ c \in DOMAIN calls
    /\ calls[c].pc = "lookup"
    /\ calls' = IF calls[c].id \in records
                THEN [calls EXCEPT ![c].pc = "delete"]
                ELSE [calls EXCEPT ![c].pc = "resume", ![c].res = "fail",
                                   ![c].message = <<"not found", calls[c].id>>]
    /\ UNCHANGED <<hasFiles, files, records, issued, throwLog>>

\* FileModel.deleteAndRemoveById deletes the bytes and the FileRecord and
\* gives {status: 'success', model}, or an error surfaces and the record stays.
deleteAndRemoveByIdDelete(c, outcome) ==
    /\ c \in DOMAIN calls
    /\ calls[c].pc = "delete"
    /\ records' = IF outcome = "success" THEN records \ {calls[c].id} ELSE records
    /\ calls' = [calls EXCEPT ![c].pc = "resume", ![c].res = outcome,
                              ![c].message = IF outcome = "success" THEN NoMessage
                                             ELSE <<"error", calls[c].id>>]
    /\ UNCHANGED <<hasFiles, files, issued, throwLog>>

\* removeFileById after its await: return the fail result, or splice the id
\* out at the index it has now and return success; an error goes to the caller.
removeFileByIdResume(c) ==
    /\ c \in DOMAIN calls
    /\ calls[c].kind = "removeFileById"
    /\ calls[c].pc = "resume"
    /\ files' = SpliceOut(files, calls[c].res, calls[c].id)
    /\ calls' = Settled([calls EXCEPT ![c].pc = "done",
                                      ![c].status = Returned(calls[c].res)], c)
    /\ throwLog' = IF calls[c].res = "throw" THEN Append(throwLog, c) ELSE throwLog
    /\ UNCHANGED <<hasFiles, records, issued>>

\* post.deleteAllFiles(): this.files.map starts one removeFileById per id,
\* each up to its await, then Promise.all is awaited.  Without this.files the
\* map throws inside the try.
deleteAllFiles ==
    /\ Cardinality(TopLevel) < MaxCalls
    /\ LET d == Len(calls) + 1
           kids == [i \in 1..Len(files) |-> removeFileByIdCall(files[i], d)]
       IN calls' = IF hasFiles
                   THEN PromiseAll(Append(calls, NewCall("deleteAllFiles", 0, 0)) \o kids, d)
                   ELSE Append(calls, Catch(NewCall("deleteAllFiles", 0, 0), TypeErrorMessage))
    /\ UNCHANGED <<hasFiles, files, records, issued, throwLog>>

\* A post loaded with some files, each with its FileRecord; no call yet.
InitPost ==
    /\ \E k \in 0..MaxIds :
          /\ files = [i \in 1..k |-> i]
          /\ records = 1..k
          /\ issued = k
    /\ hasFiles \in BOOLEAN
    /\ ~hasFiles => files = <<>>
    /\ calls = <<>>
    /\ throwLog = <<>>

\* No post is looked at.
NoPost ==
    /\ hasFiles = TRUE
    /\ files = <<>>
    /\ records = {}
    /\ issued = 0
    /\ calls = <<>>
    /\ throwLog = <<>>

NextPost ==
    \/ addFileCall /\ UNCHANGED <<reaperVars, mwVars, cfgVars>>
    \/ (\E c \in 1..(MaxCalls + MaxIds), o \in {"success", "fail", "throw"} :
            createAndMove(c, o)) /\ UNCHANGED <<reaperVars, mwVars, cfgVars>>
    \/ (\E c \in 1..(MaxCalls + MaxIds) : addFileResume(c)) /\ UNCHANGED <<reaperVars, mwVars, cfgVars>>
    \/ (\E id \in Ids : removeFileById(id)) /\ UNCHANGED <<reaperVars, mwVars, cfgVars>>
    \/ (\E c \in 1..(MaxCalls + MaxIds) : deleteAndRemoveByIdLookup(c))
           /\ UNCHANGED <<reaperVars, mwVars, cfgVars>>
    \/ (\E c \in 1..(MaxCalls + MaxIds), o \in {"success", "throw"} :
            deleteAndRemoveByIdDelete(c, o)) /\ UNCHANGED <<reaperVars, mwVars, cfgVars>>
    \/ (\E c \in 1..(MaxCalls + MaxIds) : removeFileByIdResume(c))
           /\ UNCHANGED <<reaperVars, mwVars, cfgVars>>
    \/ deleteAllFiles /\ UNCHANGED <<reaperVars, mwVars, cfgVars>>

\* ------------------------------------------------------------ middleware

FieldNames == {"avatar", "doc"}

\* The sequences of field names of the files a request can carry.
Uploads ==
    UNION {[1..n -> FieldNames] : n \in 0..MaxUploads}

\* The keys of the mapping or sequence f.
Keys(f) ==
    DOMAIN f

\* req.files by shape: "undefined"; "array" (upload.any(): list, the
\* descriptors in upload order); "object" (upload.fields(): obj, field name ->
\* descriptors); "mapping" (what the middleware leaves: obj, field name ->
\* descriptor).
ReqFiles(shape, list, obj) ==
    [shape |-> shape, list |-> list, obj |-> obj]

\* The descriptor of the i-th file of the request.
Descriptor(i) ==
    [fieldname |-> request.upload[i], file |-> i]

\* Mutant: the first file of a field name is kept.
CollapseFirst(list) ==
    [n \in {list[i].fieldname : i \in DOMAIN list} |->
        list[CHOOSE i \in DOMAIN list :
                 /\ list[i].fieldname = n
                 /\ \A j \in DOMAIN list : list[j].fieldname = n => i <= j]]

\* const files = {}; req.files.map(file => { files[file.fieldname] = file; })
Collapse(list) ==
    [n \in {list[i].fieldname : i \in DOMAIN list} |->
        list[CHOOSE i \in DOMAIN list :
                 /\ list[i].fieldname = n
                 /\ \A j \in DOMAIN list : list[j].fieldname = n => j <= i]]

\* uploader(req, res, callback) begins: a body that is not multipart goes
\* straight to the callback; otherwise req.files is set up empty, as an array
\* (upload.any()) or as an object (upload.fields(opts.fields)).
uploaderStart ==
    /\ mw.pc = "start"
    /\ IF request.multipart
       THEN /\ reqFiles' = IF request.fields
                           THEN ReqFiles("object", <<>>, <<>>)
                           ELSE ReqFiles("array", <<>>, <<>>)
            /\ mw' = [mw EXCEPT !.pc = "uploading"]
       ELSE /\ mw' = [mw EXCEPT !.pc = "callback"]
            /\ UNCHANGED reqFiles
    /\ UNCHANGED request

\* The uploader stages the next file and adds its descriptor to req.files, or
\* fails on it (disk write error, limit, unexpected field) and reports the
\* error to the callback.
uploaderFile(ok) ==
    /\ mw.pc = "uploading"
    /\ mw.pos < Len(request.upload)
    /\ LET d == Descriptor(mw.pos + 1)
           n == d.fieldname
       IN IF ok
          THEN /\ mw' = [mw EXCEPT !.pos = mw.pos + 1]
               /\ reqFiles' =
                     IF reqFiles.shape = "array"
                     THEN [reqFiles EXCEPT !.list = Append(reqFiles.list, d)]
                     ELSE [reqFiles EXCEPT !.obj =
                              [k \in Keys(reqFiles.obj) \cup {n} |->
                                  IF k = n
                                  THEN (IF n \in Keys(reqFiles.obj)
                                        THEN Append(reqFiles.obj[n], d) ELSE <<d>>)
                                  ELSE reqFiles.obj[k]]]
          ELSE /\ mw' = [mw EXCEPT !.pc = "callback", !.err = TRUE]
               /\ UNCHANGED reqFiles
    /\ UNCHANGED request

\* Every file is staged: the uploader calls the callback without error.
uploaderEnd ==
    /\ mw.pc = "uploading"
    /\ mw.pos = Len(request.upload)
    /\ mw' = [mw EXCEPT !.pc = "callback"]
    /\ UNCHANGED <<request, reqFiles>>

\* function(){ const files = {}; req.files.map(...); req.files = files; next(); }
\* The callback takes no parameter: the uploader's error is not looked at.
\* req.files.map throws a TypeError unless req.files is an array.
callback ==
    /\ mw.pc = "callback"
    /\ IF reqFiles.shape = "array"
       THEN /\ reqFiles' = ReqFiles("mapping", <<>>, Collapse(reqFiles.list))
            /\ mw' = [mw EXCEPT !.pc = "done", !.next = "called"]
       ELSE /\ mw' = [mw EXCEPT !.pc = "done", !.threw = TRUE]
            /\ UNCHANGED reqFiles
    /\ UNCHANGED request

\* A request arrives at the function middleware(opts) returned.
InitRequest ==
    /\ request \in [fields : BOOLEAN, multipart : BOOLEAN, upload : Uploads]
    /\ reqFiles = ReqFiles("undefined", <<>>, <<>>)
    /\ mw = [pc |-> "start", pos |-> 0, err |-> FALSE, next |-> "none", threw |-> FALSE]

\* No request is looked at.
NoRequest ==
    /\ request = [fields |-> FALSE, multipart |-> FALSE, upload |-> <<>>]
    /\ reqFiles = ReqFiles("undefined", <<>>, <<>>)
    /\ mw = [pc |-> "done", pos |-> 0, err |-> FALSE, next |-> "none", threw |-> FALSE]

NextRequest ==
    \/ uploaderStart /\ UNCHANGED <<reaperVars, postVars, cfgVars>>
    \/ (\E ok \in BOOLEAN : uploaderFile(ok)) /\ UNCHANGED <<reaperVars, postVars, cfgVars>>
    \/ uploaderEnd /\ UNCHANGED <<reaperVars, postVars, cfgVars>>
    \/ callback /\ UNCHANGED <<reaperVars, postVars, cfgVars>>

\* ------------------------------------------------------------ constructor options

\* The values opts.clearTmpTime and opts.clearTmpIntervalTime are given (0: omitted).
OptTimes == {0, 1000, 1000 * 60 * 60 * 5}

OptIntervalTimes == {0, 500}

\* The ages, in milliseconds, of the entries a sweep is asked about.
Ages == {0, 1000 * 5 - 1, 1000 * 5, 1000 * 60 * 60 * 5 - 1, 1000 * 60 * 60 * 5}

\* opts.x || d
OrDefault(x, d) ==
    IF x = 0 THEN d ELSE x

\* The default of clearTmpTime: 1000 * 60 * 60 * 5 in the manager with
\* startClearInterval, 1000 * 5 in the manager whose constructor starts the timer.
DefaultClearTmpTime(v) ==
    IF v = "ctor" THEN 1000 * 5 ELSE 1000 * 60 * 60 * 5

\* The default of clearTmpIntervalTime.
DefaultClearTmpIntervalTime(v) ==
    IF v = "ctor" THEN 1000 ELSE 1000 * 60 * 10

NotConstructed ==
    [constructed |-> FALSE, clearTmpTime |-> 0, clearTmpIntervalTime |-> 0]

NoVerdict ==
    [made |-> FALSE, force |-> FALSE, isDirectory |-> FALSE, age |-> 0, remove |-> FALSE]

\* constructor(opts={}): the default values.
constructor ==
    /\ ~config.constructed
    /\ config' = [constructed |-> TRUE,
                  clearTmpTime |->
                      OrDefault(opts.clearTmpTime, DefaultClearTmpTime(version)),
                  clearTmpIntervalTime |->
                      OrDefault(opts.clearTmpIntervalTime,
                                DefaultClearTmpIntervalTime(version))]
    /\ UNCHANGED <<opts, verdict>>

\* What the callback of a sweep decides for an entry of this age:
\* isDirectory, then force || date - stats.birthtimeMs >= this.#clearTmpTime.
Judge(force, isDirectory, age) ==
    /\ config.constructed
    /\ verdict' = [made |-> TRUE, force |-> force, isDirectory |-> isDirectory,
                   age |-> age,
                   remove |-> isDirectory /\ (force \/ age >= config.clearTmpTime)]
    /\ UNCHANGED <<opts, config>>

\* new MulterManager(opts) is about to run.
InitConfig ==
    /\ opts \in [clearTmpTime : OptTimes, clearTmpIntervalTime : OptIntervalTimes]
    /\ config = NotConstructed
    /\ verdict = NoVerdict

\* No construction is looked at.
NoConfig ==
    /\ opts = [clearTmpTime |-> 0, clearTmpIntervalTime |-> 0]
    /\ config = NotConstructed
    /\ verdict = NoVerdict

NextConfig ==
    \/ constructor /\ UNCHANGED <<reaperVars, postVars, mwVars>>
    \/ (\E force \in BOOLEAN, isDirectory \in BOOLEAN, age \in Ages :
            Judge(force, isDirectory, age)) /\ UNCHANGED <<reaperVars, postVars, mwVars>>

\* ------------------------------------------------------------ specifications

\* A call that ends is looked at (`ended`) before anything else happens.
NoneEnded ==
    ended.pc = "idle"

\* A step of the manager.
Step(A) ==
    NoneEnded /\ A /\ UNCHANGED <<postVars, mwVars, cfgVars>>

Next ==
    \/ Step(startClearInterval)
    \/ Step(stopClearInterval)
    \/ Step(\E t \in TimerIds : TimerFire(t))
    \/ Step(\E s \in SweepIds, io \in BOOLEAN : Readdir(s, io))
    \/ Step(\E s \in SweepIds, e \in Names, io \in BOOLEAN : Stat(s, e, io))
    \/ Step(\E s \in SweepIds, e \in Names, io \in BOOLEAN : Rm(s, e, io))
    \/ Step(Stage)
    \/ Step(PutFile)
    \/ Step(\E e \in Names : Commit(e))
    \/ Step(Tick)
    \/ Return /\ UNCHANGED <<postVars, mwVars, cfgVars>>

\* A manager just constructed, and no post.
InitManager ==
    /\ Init
    /\ NoPost
    /\ NoRequest
    /\ NoConfig

\* The manager with its lifecycle (both versions).
Spec == InitManager /\ [][Next]_vars

\* One manager whose clearTemp is called by anyone, at any time, forced or not:
\* every sweep the lifecycle can start is among these calls.
InitSweep ==
    /\ Init
    /\ version = "lifecycle"
    /\ NoPost
    /\ NoRequest
    /\ NoConfig

NextSweep ==
    \/ Step(\E force \in BOOLEAN : Call(force))
    \/ Step(\E s \in SweepIds, io \in BOOLEAN : Readdir(s, io))
    \/ Step(\E s \in SweepIds, e \in Names, io \in BOOLEAN : Stat(s, e, io))
    \/ Step(\E s \in SweepIds, e \in Names, io \in BOOLEAN : Rm(s, e, io))
    \/ Step(Stage)
    \/ Step(PutFile)
    \/ Step(\E e \in Names : Commit(e))
    \/ Step(Tick)
    \/ Return /\ UNCHANGED <<postVars, mwVars, cfgVars>>

SpecSweep == InitSweep /\ [][NextSweep]_vars

\* The manager when the timer fires on time and I/O succeeds and takes no
\* time: time passes only when no callback is due and no sweep is in flight.
NextTimed ==
    \/ Step(startClearInterval)
    \/ Step(stopClearInterval)
    \/ Step(\E t \in TimerIds : TimerFire(t))
    \/ Step(\E s \in SweepIds : Readdir(s, FALSE))
    \/ Step(\E s \in SweepIds, e \in Names : Stat(s, e, FALSE))
    \/ Step(\E s \in SweepIds, e \in Names : Rm(s, e, FALSE))
    \/ Step(Stage)
    \/ Step(\E e \in Names : Commit(e))
    \/ Step(Quiet /\ Tick)
    \/ Return /\ UNCHANGED <<postVars, mwVars, cfgVars>>

SpecTimed == InitManager /\ [][NextTimed]_vars

\* One post and the calls made on it.
InitPostOnly ==
    /\ Init
    /\ version = "lifecycle"
    /\ InitPost
    /\ NoRequest
    /\ NoConfig

SpecPost == InitPostOnly /\ [][NextPost]_vars

\* Every call made so far has returned or thrown.
AllReturned ==
    \A c \in DOMAIN calls : calls[c].pc = "done"

\* One post whose methods are called one after the other: a call is made
\* only when the calls before it have returned.
NextSerial ==
    \/ AllReturned /\ addFileCall /\ UNCHANGED <<reaperVars, mwVars, cfgVars>>
    \/ (\E c \in 1..(MaxCalls + MaxIds), o \in {"success", "fail", "throw"} :
            createAndMove(c, o)) /\ UNCHANGED <<reaperVars, mwVars, cfgVars>>
    \/ (\E c \in 1..(MaxCalls + MaxIds) : addFileResume(c)) /\ UNCHANGED <<reaperVars, mwVars, cfgVars>>
    \/ AllReturned /\ (\E id \in Ids : removeFileById(id)) /\ UNCHANGED <<reaperVars, mwVars, cfgVars>>
    \/ (\E c \in 1..(MaxCalls + MaxIds) : deleteAndRemoveByIdLookup(c))
           /\ UNCHANGED <<reaperVars, mwVars, cfgVars>>
    \/ (\E c \in 1..(MaxCalls + MaxIds), o \in {"success", "throw"} :
            deleteAndRemoveByIdDelete(c, o)) /\ UNCHANGED <<reaperVars, mwVars, cfgVars>>
    \/ (\E c \in 1..(MaxCalls + MaxIds) : removeFileByIdResume(c))
           /\ UNCHANGED <<reaperVars, mwVars, cfgVars>>
    \/ AllReturned /\ deleteAllFiles /\ UNCHANGED <<reaperVars, mwVars, cfgVars>>

SpecSerial == InitPostOnly /\ [][NextSerial]_vars

\* One request through the upload middleware.
InitRequestOnly ==
    /\ Init
    /\ version = "lifecycle"
    /\ NoPost
    /\ InitRequest
    /\ NoConfig

SpecRequest == InitRequestOnly /\ [][NextRequest]_vars

\* The construction of a manager, of either version, from its options.
InitConfigOnly ==
    /\ Init
    /\ NoPost
    /\ NoRequest
    /\ InitConfig

SpecConfig == InitConfigOnly /\ [][NextConfig]_vars

\* ------------------------------------------------------------ claims

\* The age the sweep sw computes for the entry with these stats.
AgeAt(sw, stats) ==
    sw.date - stats.birthtimeMs

\* C1: when a non-forced sweep has ended without I/O failure, no
\* entry it listed whose age at sweep time is at least clearTmpTime remains,
\* whatever kind of entry it is.
C1_ExpiredEntriesDeleted ==
    (ended.pc = "done" /\ ~ended.force /\ ~ended.caught) =>
        \A e \in ended.files :
            e \in DOMAIN tmpDir => AgeAt(ended, tmpDir[e]) < clearTmpTime

\* The step in which the sweep in slot s removes the entry e.
Removes(s, e) ==
    /\ sweeps[s].cb[e] = "rm"
    /\ sweeps'[s] # sweeps[s]
    /\ e \in DOMAIN tmpDir
    /\ e \notin DOMAIN tmpDir'

\* C2: a sweep started by a timer is never forced, and a sweep removes an
\* entry whose age at sweep time is below clearTmpTime only if it is a forced
\* sweep, which a lifecycle call (start, the constructor, stop) started.
C2_FreshOnlyByForced ==
    /\ [](\A s \in SweepIds : sweeps[s].origin = "timer" => ~sweeps[s].force)
    /\ [][\A s \in SweepIds, e \in Names :
            (Removes(s, e) /\ AgeAt(sweeps[s], tmpDir[e]) < clearTmpTime)
                => (sweeps[s].force /\ sweeps[s].origin = "call")]_vars

\* A timer-driven sweep has ended and a directory it listed, younger than
\* clearTmpTime, is still there.
C2_Witness ==
    /\ ended.pc = "done" /\ ended.origin = "timer"
    /\ \E e \in ended.files :
          /\ e \in DOMAIN tmpDir
          /\ tmpDir[e].isDirectory
          /\ ended.cb[e] = "skipped"
          /\ AgeAt(ended, tmpDir[e]) < clearTmpTime

\* C3: when a forced sweep has ended without I/O failure, no entry
\* it listed remains.
C3_ForcedDeletesEveryEntry ==
    (ended.pc = "done" /\ ended.force /\ ~ended.caught) =>
        \A e \in ended.files : e \notin DOMAIN tmpDir

\* C4: when a sweep and all its callbacks have ended, every entry it listed
\* that qualifies for deletion and whose own stat and rm did not fail is gone,
\* whatever happened to the other entries.
C4_FailureIsolated ==
    ended.pc = "done" =>
        \A e \in ended.files :
            \/ ended.cb[e] = "rejected"
            \/ e \notin DOMAIN tmpDir
            \/ ~tmpDir[e].isDirectory
            \/ (~ended.force /\ AgeAt(ended, tmpDir[e]) < clearTmpTime)

\* A sweep has ended in which one entry failed and another was removed.
C4_Witness ==
    /\ ended.pc = "done" /\ ended.caught
    /\ \E e1, e2 \in ended.files :
          /\ ended.cb[e1] = "rejected"
          /\ ended.cb[e2] = "removed"
          /\ e2 \notin DOMAIN tmpDir

\* C5: the promise of a sweep is never rejected, and is fulfilled when the
\* sweep has ended, whichever of readdir, stat and rm failed.
C5_NeverRejects ==
    /\ \A s \in SweepIds : sweeps[s].promise # "rejected"
    /\ ended.promise # "rejected"
    /\ ended.pc = "done" => ended.promise = "fulfilled"

\* A sweep has ended after catching an error.
C5_Witness ==
    /\ ended.pc = "done" /\ ended.caught
    /\ ended.promise = "fulfilled"

\* C6: once stopClearInterval was the last lifecycle call to
\* return, no timer starts a sweep.
C6_StopCancelsSchedule ==
    [][lastCall = "stop" => ~(\E t \in TimerIds : TimerFire(t))]_vars

\* The reaper is running: started (by startClearInterval or the constructor)
\* and not stopped.
ReaperRunning ==
    version = "ctor" \/ lastCall = "start"

\* C7: while the reaper is running and between sweeps, every staged upload
\* still in the Staging Area is younger than clearTmpTime plus one interval.
C7_ReapedByNextTick ==
    (ReaperRunning /\ NoneEnded /\ \A s \in SweepIds : sweeps[s].pc = "idle") =>
        \A e \in DOMAIN tmpDir :
            tmpDir[e].isDirectory
                => now - tmpDir[e].birthtimeMs < clearTmpTime + clearTmpIntervalTime

\* A timer-driven sweep has ended after removing a staged upload while the
\* reaper is running.
C7_Witness ==
    /\ ReaperRunning
    /\ ended.pc = "done" /\ ended.origin = "timer" /\ ~ended.caught
    /\ \E e \in ended.files : ended.cb[e] = "removed" /\ e \notin DOMAIN tmpDir

\* C8: every identifier in the files of the post has its FileRecord.
C8_FilesHaveRecords ==
    \A id \in Range(files) : id \in records

\* C9: a deleteAllFiles call that reported success had every removal succeed.
C9_SuccessOnlyIfAllRemoved ==
    \A d \in DOMAIN calls :
        (calls[d].kind = "deleteAllFiles" /\ calls[d].status = "success") =>
            \A c \in Children(calls, d) : calls[c].status = "success"

\* The removals of the deleteAllFiles call d that threw.
Threw(d) ==
    {c \in Children(calls, d) : calls[c].status = "threw"}

\* The first removal of the deleteAllFiles call d to throw.
FirstThrown(d) ==
    throwLog[CHOOSE i \in DOMAIN throwLog :
                 /\ throwLog[i] \in Threw(d)
                 /\ \A j \in DOMAIN throwLog : throwLog[j] \in Threw(d) => i <= j]

\* C10: a deleteAllFiles call never throws; as soon as one of its removals
\* has thrown it has returned fail with the message of the first error thrown,
\* it returns fail in no other case (but for a post without a files array),
\* and the files its removals took away stay away, without their FileRecord.
C10_FailWithFirstError ==
    \A d \in DOMAIN calls :
        calls[d].kind = "deleteAllFiles" =>
            /\ calls[d].status # "threw"
            /\ Threw(d) # {} =>
                  /\ calls[d].pc = "done"
                  /\ calls[d].status = "fail"
                  /\ calls[d].message = calls[FirstThrown(d)].message
            /\ calls[d].status = "fail" =>
                  (Threw(d) # {} \/ calls[d].message = TypeErrorMessage)
            /\ \A c \in Children(calls, d) :
                  calls[c].status = "success" =>
                      /\ calls[c].id \notin Range(files)
                      /\ calls[c].id \notin records

\* A deleteAllFiles call has returned fail after two of its removals threw,
\* the later call first, and a third took its file away.
C10_Witness ==
    \E d \in DOMAIN calls :
        /\ calls[d].kind = "deleteAllFiles"
        /\ calls[d].status = "fail"
        /\ \E c1, c2 \in Threw(d) : c1 < c2 /\ FirstThrown(d) = c2
        /\ \E c \in Children(calls, d) : calls[c].status = "success"

\* C11: in a deleteAllFiles call on a post with a files array, made while no
\* other call is in flight, there is exactly one removal per id of the
\* sequence and each one calls deleteAndRemoveById; when every removal has
\* succeeded the call has returned success, the sequence is empty and none of
\* the FileRecords is left.
C11_DeleteAllRemovesAll ==
    \A d \in DOMAIN calls :
        (/\ calls[d].kind = "deleteAllFiles"
         /\ calls[d].had
         /\ \A c \in TopLevel : c <= d) =>
            /\ {calls[c].id : c \in Children(calls, d)} = Range(calls[d].before)
            /\ Cardinality(Children(calls, d)) = Len(calls[d].before)
            /\ \A c \in Children(calls, d) :
                  calls[c].pc = "done" => calls[c].res # "none"
            /\ (\A c \in Children(calls, d) : calls[c].status = "success") =>
                  /\ calls[d].status = "success"
                  /\ files = <<>>
                  /\ records \cap Range(calls[d].before) = {}
            /\ calls[d].status = "success" => files = <<>>

\* A deleteAllFiles call on a post with MaxIds files has returned success
\* after every removal succeeded.
C11_Witness ==
    \E d \in DOMAIN calls :
        /\ calls[d].kind = "deleteAllFiles"
        /\ calls[d].status = "success"
        /\ Len(calls[d].before) = MaxIds
        /\ \A c \in Children(calls, d) : calls[c].status = "success"
        /\ files = <<>>

\* The call c returns in this step (it was suspended at its await).
Returns(c) ==
    /\ calls[c].status = "pending"
    /\ calls'[c].status # "pending"

\* C12: an addFile call whose createAndMove gave success returns success, and
\* in returning makes the sequence the sequence as it was followed by the id
\* of the new FileRecord.
C12_AddFileAppends ==
    [][\A c \in DOMAIN calls :
          (calls[c].kind = "addFile" /\ calls[c].res = "success" /\ Returns(c)) =>
              /\ files' = Append(files, calls[c].id)
              /\ hasFiles'
              /\ calls[c].id \in records
              /\ calls'[c].status = "success"]_vars

\* An addFile call has returned success on a post that had files, and no
\* other call was made since: the sequence is the one before the call
\* followed by the new id.
C12_Witness ==
    \E c \in DOMAIN calls :
        /\ calls[c].kind = "addFile"
        /\ calls[c].status = "success"
        /\ c = Len(calls)
        /\ calls[c].before # <<>>
        /\ files = Append(calls[c].before, calls[c].id)

\* C13: an addFile call whose createAndMove gave a fail result returns fail
\* with that message and leaves this.files as it was.
C13_FailedAddChangesNothing ==
    [][\A c \in DOMAIN calls :
          (calls[c].kind = "addFile" /\ calls[c].res = "fail" /\ Returns(c)) =>
              /\ files' = files
              /\ hasFiles' = hasFiles
              /\ calls'[c].status = "fail"
              /\ calls'[c].message = calls[c].message]_vars

\* The not-found result of removeFileById for the id.
NotFoundOfPost(id) ==
    <<"Not found file of post with id", id>>

\* C14: a removeFileById call for an id that is not in the sequence, or on a
\* post without a sequence, returns fail with the not-found message at once,
\* changes neither the sequence nor the FileRecords, and never gets to
\* deleteAndRemoveById.
C14_NotFoundNoDeletion ==
    /\ [](\A c \in DOMAIN calls :
             (calls[c].kind = "removeFileById"
                  /\ calls[c].message = NotFoundOfPost(calls[c].id)) =>
                 /\ calls[c].pc = "done"
                 /\ calls[c].status = "fail"
                 /\ calls[c].res = "none")
    /\ [][(/\ Len(calls') = Len(calls) + 1
           /\ calls'[Len(calls')].kind = "removeFileById"
           /\ (~hasFiles \/ calls'[Len(calls')].id \notin Range(files))) =>
              /\ calls'[Len(calls')].message = NotFoundOfPost(calls'[Len(calls')].id)
              /\ calls'[Len(calls')].status = "fail"
              /\ files' = files
              /\ hasFiles' = hasFiles
              /\ records' = records]_vars

\* A removeFileById call for an id that has its FileRecord but is not in the
\* sequence of the post has returned not found, and the FileRecord is there.
C14_Witness ==
    \E c \in DOMAIN calls :
        /\ calls[c].kind = "removeFileById"
        /\ calls[c].message = NotFoundOfPost(calls[c].id)
        /\ calls[c].status = "fail"
        /\ calls[c].id \in records
        /\ calls[c].id \notin Range(files)

\* The sequence seq without its element at position i (from 1).
Without(seq, i) ==
    [j \in 1..(Len(seq) - 1) |-> IF j < i THEN seq[j] ELSE seq[j + 1]]

\* C15: a removeFileById call whose deleteAndRemoveById gave success takes, in
\* returning, exactly one occurrence of its id out of the sequence and leaves
\* the other ids as they were, in their order.
C15_RemovesExactlyItsId ==
    [][\A c \in DOMAIN calls :
          (calls[c].kind = "removeFileById" /\ calls[c].res = "success" /\ Returns(c)) =>
              \E i \in DOMAIN files :
                  /\ files[i] = calls[c].id
                  /\ files' = Without(files, i)]_vars

\* C16: a removeFileById call whose deleteAndRemoveById gave a fail result
\* returns fail with that message and leaves this.files as it was.
C16_FailedRemoveChangesNothing ==
    [][\A c \in DOMAIN calls :
          (calls[c].kind = "removeFileById" /\ calls[c].res = "fail" /\ Returns(c)) =>
              /\ calls'[c].status = "fail"
              /\ calls'[c].message = <<"not found", calls[c].id>>
              /\ files' = files
              /\ hasFiles' = hasFiles]_vars

\* A removeFileById call has returned the fail result of deleteAndRemoveById
\* and its id is still in the sequence.
C16_Witness ==
    \E c \in DOMAIN calls :
        /\ calls[c].kind = "removeFileById"
        /\ calls[c].res = "fail"
        /\ calls[c].status = "fail"
        /\ calls[c].id \in Range(files)

\* C17: when the last two calls on a post that had a files array are an
\* addFile that returned success and then a removeFileById of the id it
\* returned that returned success, the sequence is what it was before the
\* addFile and the FileRecord of the id is gone.
C17_AddThenRemoveRoundTrip ==
    \A a, r \in DOMAIN calls :
        (/\ r = a + 1
         /\ r = Len(calls)
         /\ calls[a].kind = "addFile"
         /\ calls[a].had
         /\ calls[a].status = "success"
         /\ calls[r].kind = "removeFileById"
         /\ calls[r].id = calls[a].id
         /\ calls[r].status = "success") =>
            /\ files = calls[a].before
            /\ calls[a].id \notin records

\* The round trip has been made on a post that had files.
C17_Witness ==
    \E a, r \in DOMAIN calls :
        /\ r = a + 1
        /\ r = Len(calls)
        /\ calls[a].kind = "addFile"
        /\ calls[a].status = "success"
        /\ calls[a].before # <<>>
        /\ calls[r].kind = "removeFileById"
        /\ calls[r].id = calls[a].id
        /\ calls[r].status = "success"
        /\ files = calls[a].before

\* C18: no addFile or removeFileById call throws.
C18_NeverThrows ==
    \A c \in DOMAIN calls :
        calls[c].kind \in {"addFile", "removeFileById"} => calls[c].status # "threw"

\* The ids of the calls of this kind that returned success.
Succeeded(kind) ==
    {calls[c].id : c \in {k \in DOMAIN calls :
                              calls[k].kind = kind /\ calls[k].status = "success"}}

\* C19: when only addFile and removeFileById calls were made on a post and
\* all have returned, the sequence holds, once each, exactly the ids it held
\* before the first call, plus those of the addFile calls that succeeded,
\* minus those of the removeFileById calls that succeeded.
C19_NoLostUpdate ==
    (/\ calls # <<>>
     /\ AllReturned
     /\ \A c \in DOMAIN calls : calls[c].kind # "deleteAllFiles") =>
        /\ Range(files) = (Range(calls[1].before) \cup Succeeded("addFile"))
                              \ Succeeded("removeFileById")
        /\ Len(files) = Cardinality(Range(files))

\* C20: when the uploader has reported an error to the callback, next is not
\* called without an error.
C20_NoNextAfterUploadError ==
    mw.err => mw.next # "called"

\* The files of the request that were uploaded (staged), by position.
Uploaded ==
    1..mw.pos

\* C21: without opts.fields, once the middleware has called next, req.files is
\* a mapping whose keys are exactly the field names of the uploaded files, and
\* each key maps to the descriptor of the last uploaded file of that name.
C21_MappingLastWins ==
    (~request.fields /\ mw.next = "called") =>
        /\ reqFiles.shape = "mapping"
        /\ Keys(reqFiles.obj) = {request.upload[i] : i \in Uploaded}
        /\ \A n \in Keys(reqFiles.obj) :
              /\ reqFiles.obj[n].fieldname = n
              /\ reqFiles.obj[n].file \in Uploaded
              /\ \A i \in Uploaded : request.upload[i] = n => i <= reqFiles.obj[n].file

\* The middleware has run on a request with three files, two of them under
\* one field name: two keys, the later file under the repeated name.
C21_Witness ==
    /\ ~request.fields
    /\ mw.next = "called"
    /\ mw.pos = 3
    /\ request.upload[1] = request.upload[3]
    /\ request.upload[2] # request.upload[1]
    /\ Cardinality(Keys(reqFiles.obj)) = 2
    /\ reqFiles.obj[request.upload[1]].file = 3

\* C22: a manager constructed without opts.clearTmpTime has an expiry duration
\* of 5 hours (18,000,000 ms), and its non-forced sweeps never decide to remove
\* a directory younger than that.
C22_DefaultFiveHours ==
    (config.constructed /\ opts.clearTmpTime = 0) =>
        /\ config.clearTmpTime = 18000000
        /\ (verdict.made /\ ~verdict.force /\ verdict.age < 18000000) => ~verdict.remove

\* The sweeps in progress.
InProgress ==
    {s \in SweepIds : sweeps[s].pc # "idle"}

\* C23: at most one sweep of the manager is in progress.
C23_OneSweepAtATime ==
    Cardinality(InProgress) <= 1

\* C24: a removeFileById call that returns takes no id other than its own out
\* of the sequence.
C24_RemovesOnlyItsId ==
    [][\A c \in DOMAIN calls :
          (calls[c].kind = "removeFileById" /\ Returns(c)) =>
              Range(files) \ Range(files') \subseteq {calls[c].id}]_vars

\* C25: when a deleteAllFiles call has returned, every removal it started has
\* returned or thrown.
C25_ReturnedMeansAllSettled ==
    \A d \in DOMAIN calls :
        (calls[d].kind = "deleteAllFiles" /\ calls[d].pc = "done") =>
            \A c \in Children(calls, d) : calls[c].pc = "done"

\* C26: no step of a sweep takes anything out of the Permanent Store: what is
\* committed stays.
C26_PermanentStoreUntouched ==
    [][(\E s \in SweepIds : sweeps'[s] # sweeps[s]) => dstDir \subseteq dstDir']_vars

\* A forced sweep has ended whose rm ran on an entry that was committed in
\* the meantime, and the entry is in the Permanent Store.
C26_Witness ==
    /\ ended.pc = "done" /\ ended.force
    /\ \E e \in ended.files : ended.cb[e] = "removed" /\ e \in dstDir

====
